---- MODULE Spec2Model ----
(***************************************************************************)
(* A model of mara_overlay.py: the distance accumulator cumulative_miles,  *)
(* the time origin get_video_start_utc, the GPX loader parse_gpx and the   *)
(* frame pipeline of main (probe, parse, render loop, encode, cleanup).    *)
(*                                                                         *)
(* Instants are integers.  In the pipeline they count ticks of             *)
(* 1/TicksPerSecond seconds since 2025-01-01T00:00:00 UTC; naive (zone-    *)
(* less) clock readings count ticks since 2025-01-01T00:00:00 on the wall  *)
(* clock they were read from.                                              *)
(***************************************************************************)
EXTENDS Integers, Sequences, FiniteSets, TLC

(* ------------------------------ bounds --------------------------------- *)

\* longest track of the distance accumulator's input space
MaxPoints == 3
\* sample timestamps and query instants of that input space are 0..MaxTime
MaxTime == 2
\* equator longitudes 0..MaxLon (degrees) of that input space
MaxLon == 2
\* runs of main in one working directory
MaxRuns == 2
\* container durations are n/d seconds, n in 0..MaxDurationNum, d in 1..2
MaxDurationNum == 3

VARIABLES
    points,        \* the track: a sequence of <<dt, lat, lon>> (parse_gpx's list)
    target_time,   \* argument of the latest cumulative_miles call
    miles,         \* result of the latest cumulative_miles call
    queried,       \* whether cumulative_miles has been called on this track
    run,           \* number of the current run of main in the working directory
    pc,            \* position of the current run of main
    error,         \* the step whose exception ended the run, or "none"
    tags,          \* what ffprobe reported of the container's tags
    gpx,           \* what ET.parse read from gpx_file
    OUTPUT_FPS,    \* the user setting of that name for this run
    now,           \* wall clock read by get_video_start_utc (a sequence of 0 or 1)
    duration,      \* main's local: <<n, d>>, the rational n/d seconds
    start_utc,     \* main's local
    total_frames,  \* main's local
    rendered,      \* the frames rendered so far by this run, in order
    frames_dir,    \* the folder "frames": whether it exists, and its files
    encoded,       \* the image sequence the encoder was handed in this run
    success        \* whether this run printed SUCCESS

vars == <<points, target_time, miles, queried, run, pc, error, tags, gpx,
          OUTPUT_FPS, now, duration, start_utc, total_frames, rendered,
          frames_dir, encoded, success>>

runVars == <<run, pc, error, tags, gpx, OUTPUT_FPS, now, duration, start_utc,
             total_frames, rendered, frames_dir, encoded, success>>

(* ------------------------------ haversine ------------------------------ *)

Abs(x) == IF x < 0 THEN -x ELSE x

\* The positions of the model: points of the equator at whole degrees of
\* longitude, and the north pole.
Positions ==
    {<<0, lon>> : lon \in 0..MaxLon} \cup {<<90, 0>>}

\* haversine on Positions, in whole degrees of great-circle arc (one degree
\* is 6371000 * pi/180 * 0.000621371 miles): along the equator the arc is the
\* difference of longitude, and the pole is 90 degrees from every point of
\* the equator.
haversine(lat1, lon1, lat2, lon2) ==
    IF lat1 = lat2
    THEN IF lat1 = 0 THEN Abs(lon2 - lon1) ELSE 0
    ELSE 90

(* --------------------------- cumulative_miles -------------------------- *)

\* past = [p for p in points if p[0] <= target_time]
Past(pts, t) == SelectSeq(pts, LAMBDA p : p[1] <= t)

\* the loop of lines 83-86 over past[1:], from index i with running total
RECURSIVE WalkFrom(_, _, _)
WalkFrom(past, i, total) ==
    IF i > Len(past) THEN total
    ELSE WalkFrom(past, i + 1,
                  total + haversine(past[i-1][2], past[i-1][3],
                                    past[i][2], past[i][3]))

\* the same filter with the comparison reversed
cumulative_miles_reversed(pts, t) ==
    LET past == SelectSeq(pts, LAMBDA p : p[1] >= t)
    IN  IF Len(past) < 2 THEN 0 ELSE WalkFrom(past, 2, 0)

cumulative_miles(pts, t) ==
    LET past == Past(pts, t)
    IN  IF Len(past) < 2 THEN 0 ELSE WalkFrom(past, 2, 0)

(* -------------------- the accumulator's input space -------------------- *)

Times == 0..MaxTime

Samples == {<<t, p[1], p[2]>> : t \in Times, p \in Positions}

Tracks == UNION {[1..n -> Samples] : n \in 0..MaxPoints}

\* the run of main before it starts; the accumulator's specification leaves
\* it there
IdleRun ==
    /\ run = 0
    /\ pc = "idle"
    /\ error = "none"
    /\ tags = [has_tags |-> FALSE, creation_time |-> <<>>]
    /\ gpx = [well_formed |-> FALSE, trkpts |-> <<>>]
    /\ OUTPUT_FPS = 1
    /\ now = <<>>
    /\ duration = <<0, 1>>
    /\ start_utc = 0
    /\ total_frames = 0
    /\ rendered = <<>>
    /\ frames_dir = [exists |-> FALSE, files |-> {}]
    /\ encoded = <<>>
    /\ success = FALSE

InitMiles ==
    /\ points \in Tracks
    /\ target_time = 0
    /\ miles = 0
    /\ queried = FALSE
    /\ IdleRun

\* one call cumulative_miles(points, t)
Query(t) ==
    /\ target_time' = t
    /\ miles' = cumulative_miles(points, t)
    /\ queried' = TRUE
    /\ UNCHANGED points
    /\ UNCHANGED runVars

NextMiles == \E t \in Times : Query(t)

SpecMiles == InitMiles /\ [][NextMiles]_vars

(* ------------------------- clocks and time zones ----------------------- *)

\* resolution of the model's instants: ticks per second (timedelta's
\* microseconds coarsened; exact for the frame rates of FpsSettings)
TicksPerSecond == 2

MANUAL_OFFSET_SECONDS == 3600

CLEANUP_FRAMES == TRUE

\* timedelta(seconds = n/d)
timedelta(n, d) == (n * TicksPerSecond) \div d

\* days of 2025 before the first of each month
DaysBeforeMonth == <<0, 31, 59, 90, 120, 151, 181, 212, 243, 273, 304, 334>>

\* An ISO-8601 text of 2025 is a record of its fields and its suffix
\* ("", "Z" or "+00:00").
IsoText(month, day, hour, minute, second, suffix) ==
    [month |-> month, day |-> day, hour |-> hour, minute |-> minute,
     second |-> second, frac |-> 0, suffix |-> suffix]

\* the clock reading of the fields, in ticks since 2025-01-01T00:00:00
ClockTicks(f) ==
    ((((DaysBeforeMonth[f.month] + f.day - 1) * 24 + f.hour) * 60 + f.minute) * 60
        + f.second) * TicksPerSecond + f.frac

\* text.replace('Z', by)
replace_Z(text, by) ==
    [text EXCEPT !.suffix = IF @ = "Z" THEN by ELSE @]

\* datetime.fromisoformat: the clock reading, and the UTC offset the text
\* carries, if any ("Z", not replaced, is rejected before Python 3.11 and
\* read as UTC from 3.11 on; the code never passes one)
fromisoformat(text) ==
    [clock |-> ClockTicks(text), aware |-> text.suffix # ""]

\* datetime.isoformat of an aware UTC instant
isoformat(instant) ==
    LET secs   == instant \div TicksPerSecond
        days   == secs \div (24 * 3600)
        month  == CHOOSE m \in 1..12 :
                      /\ DaysBeforeMonth[m] <= days
                      /\ (m = 12 \/ days < DaysBeforeMonth[m + 1])
        sod    == secs % (24 * 3600)
    IN  [month |-> month, day |-> days - DaysBeforeMonth[month] + 1,
         hour |-> sod \div 3600, minute |-> (sod % 3600) \div 60,
         second |-> sod % 60, frac |-> instant % TicksPerSecond,
         suffix |-> "+00:00"]

\* America/Chicago in 2025: daylight time (UTC-5) from 2025-03-09 02:00 CST
\* to 2025-11-02 02:00 CDT, standard time (UTC-6) otherwise.
\* utcoffset() of a clock reading given the zone by replace(tzinfo=...) (fold
\* 0: a reading in the spring gap has the offset from before the change, a
\* repeated autumn reading is the first, daylight one).
ChicagoOffsetOfLocal(clock) ==
    IF /\ ClockTicks(IsoText(3, 9, 3, 0, 0, "")) <= clock
       /\ clock < ClockTicks(IsoText(11, 2, 2, 0, 0, ""))
    THEN timedelta(-5 * 3600, 1)
    ELSE timedelta(-6 * 3600, 1)

\* utcoffset() of America/Chicago at a UTC instant
ChicagoOffsetOfUtc(instant) ==
    IF /\ ClockTicks(IsoText(3, 9, 8, 0, 0, "")) <= instant
       /\ instant < ClockTicks(IsoText(11, 2, 7, 0, 0, ""))
    THEN timedelta(-5 * 3600, 1)
    ELSE timedelta(-6 * 3600, 1)

\* current_utc.astimezone(ZoneInfo("America/Chicago")): the local clock reading
astimezone_Chicago(instant) == instant + ChicagoOffsetOfUtc(instant)

(* --------------------------- get_video_start_utc ----------------------- *)

\* the tag taken as UTC when it ends in Z
get_video_start_utc_honouring_Z(creation_time, nowv) ==
    LET creation == IF creation_time = <<>> THEN isoformat(nowv)
                    ELSE creation_time[1]
        dt       == fromisoformat(replace_Z(creation, "+00:00"))
    IN  (IF dt.aware THEN dt.clock
         ELSE dt.clock - ChicagoOffsetOfLocal(dt.clock))
        + timedelta(MANUAL_OFFSET_SECONDS, 1)

\* lines 55-62, given tags.get('creation_time') as a sequence of 0 or 1 text
\* and the value of datetime.now(timezone.utc)
get_video_start_utc(creation_time, nowv) ==
    LET creation == IF creation_time = <<>> THEN isoformat(nowv)
                    ELSE creation_time[1]
        naive_dt == fromisoformat(replace_Z(creation, "")).clock
        local_dt == naive_dt
        adjusted == (local_dt - ChicagoOffsetOfLocal(local_dt))
                    + timedelta(MANUAL_OFFSET_SECONDS, 1)
    IN  adjusted

(* -------------------------------- parse_gpx ---------------------------- *)

\* lines 69-75: a trkpt is [lat, lon, time], time a sequence of 0 or 1 text;
\* the points without a time are dropped.  The times of GpxFiles all end in
\* Z, so every dt is an aware UTC instant (a time without offset would give
\* a naive dt, which line 80 cannot compare with target_time).
RECURSIVE parse_gpx(_)
parse_gpx(trkpts) ==
    IF trkpts = <<>> THEN <<>>
    ELSE LET trkpt == trkpts[Len(trkpts)]
             rest  == parse_gpx(SubSeq(trkpts, 1, Len(trkpts) - 1))
         IN  IF trkpt.time # <<>>
             THEN Append(rest,
                         <<fromisoformat(replace_Z(trkpt.time[1], "+00:00")).clock,
                           trkpt.lat, trkpt.lon>>)
             ELSE rest

(* ------------------------------ main's inputs -------------------------- *)

\* settings of OUTPUT_FPS the model runs with (the file ships with 1)
FpsSettings == {1, 2}

\* durations ffprobe reports, as rationals <<n, d>>; 52/5 is 10.4 s
Durations ==
    {<<n, d>> : n \in 0..MaxDurationNum, d \in 1..2} \cup {<<52, 5>>}

\* creation_time tags: noon of 2025-06-01 with and without Z, and noon of
\* 2025-12-01
CreationTimes ==
    {IsoText(6, 1, 12, 0, 0, ""), IsoText(6, 1, 12, 0, 0, "Z"),
     IsoText(12, 1, 12, 0, 0, "Z")}

\* what ffprobe -show_format reports of the tags: whether format has a "tags"
\* object, and tags.get('creation_time') as a sequence of 0 or 1 text
TagReports ==
    {[has_tags |-> TRUE, creation_time |-> <<c>>] : c \in CreationTimes}
    \cup {[has_tags |-> h, creation_time |-> <<>>] : h \in BOOLEAN}

\* readings of the wall clock: 2025-06-01T13:00:00 UTC
Nows == {ClockTicks(IsoText(6, 1, 13, 0, 0, ""))}

Trkpt(lat, lon, time) == [lat |-> lat, lon |-> lon, time |-> time]

\* GPX files: one that is not well-formed, one without track points, and a
\* track of three timed points one second apart from 2025-06-01T18:00:00Z
\* with an untimed point among them
GpxFiles ==
    {[well_formed |-> FALSE, trkpts |-> <<>>],
     [well_formed |-> TRUE, trkpts |-> <<>>],
     [well_formed |-> TRUE, trkpts |->
        <<Trkpt(0, 0, <<IsoText(6, 1, 18, 0, 0, "Z")>>),
          Trkpt(0, 2, <<>>),
          Trkpt(0, 1, <<IsoText(6, 1, 18, 0, 1, "Z")>>),
          Trkpt(90, 0, <<IsoText(6, 1, 18, 0, 2, "Z")>>)>>]}

(* ---------------------------------- main ------------------------------- *)

\* int(duration * OUTPUT_FPS) rounded up instead of truncated
TotalFramesCeil(d, fps) == -((-(d[1] * fps)) \div d[2]) + 1

\* line 98: int(duration * OUTPUT_FPS) + 1, for a duration >= 0
TotalFrames(d, fps) == (d[1] * fps) \div d[2] + 1

\* the files of frames_dir that ffmpeg reads for the pattern %08d.png: the
\* consecutive indices from 0 up to the first one missing
ImageSequence(files) ==
    LET has(i) == \E f \in files : f.index = i
        n == CHOOSE k \in 0..Cardinality(files) :
                 /\ \A i \in 0..(k - 1) : has(i)
                 /\ ~has(k)
    IN  [i \in 1..n |-> CHOOSE f \in files : f.index = i - 1]

\* an exception leaves main: the run ends at this step
Abort(step) ==
    /\ pc' = "aborted"
    /\ error' = step

Init ==
    /\ points = <<>>
    /\ target_time = 0
    /\ miles = 0
    /\ queried = FALSE
    /\ IdleRun

\* main(gpx_file, video_file, output_webm) is started in the working
\* directory; what earlier runs left in frames_dir is still there
StartRun ==
    /\ pc \in {"idle", "done", "aborted"}
    /\ run < MaxRuns
    /\ run' = run + 1
    /\ tags' = [has_tags |-> FALSE, creation_time |-> <<>>]
    /\ gpx' = [well_formed |-> FALSE, trkpts |-> <<>>]
    /\ OUTPUT_FPS' \in FpsSettings
    /\ pc' = "probe_duration"
    /\ error' = "none"
    /\ now' = <<>>
    /\ duration' = <<0, 1>>
    /\ start_utc' = 0
    /\ total_frames' = 0
    /\ rendered' = <<>>
    /\ encoded' = <<>>
    /\ success' = FALSE
    /\ points' = <<>>
    /\ target_time' = 0
    /\ miles' = 0
    /\ queried' = FALSE
    /\ frames_dir' = [frames_dir EXCEPT
                         !.files = {[f EXCEPT !.fresh = FALSE] : f \in @}]

\* lines 90-93: ffprobe for the duration; without a parseable answer
\* json.loads or the subscripts raise
ProbeDuration ==
    /\ pc = "probe_duration"
    /\ \E probe_ok \in BOOLEAN, reported \in Durations :
        IF probe_ok
        THEN /\ duration' = reported
             /\ pc' = "get_start"
             /\ UNCHANGED error
        ELSE /\ Abort("ffprobe")
             /\ UNCHANGED duration
    /\ UNCHANGED <<points, target_time, miles, queried, run, tags, gpx,
                   OUTPUT_FPS, now, start_utc, total_frames, rendered,
                   frames_dir, encoded, success>>

\* line 95: get_video_start_utc(video_file); ['format']['tags'] raises
\* KeyError when the container has no tags, and the default of .get is
\* evaluated whether or not the tag is there
GetVideoStartUtc ==
    /\ pc = "get_start"
    /\ \E probe_ok \in BOOLEAN, reported \in TagReports, nowv \in Nows :
        IF ~probe_ok
        THEN /\ Abort("ffprobe")
             /\ UNCHANGED <<tags, now, start_utc>>
        ELSE IF ~reported.has_tags
        THEN /\ tags' = reported
             /\ Abort("KeyError")
             /\ UNCHANGED <<now, start_utc>>
        ELSE /\ tags' = reported
             /\ now' = <<nowv>>
             /\ start_utc' = get_video_start_utc(reported.creation_time, nowv)
             /\ pc' = "parse"
             /\ UNCHANGED error
    /\ UNCHANGED <<points, target_time, miles, queried, run, gpx,
                   OUTPUT_FPS, duration, total_frames, rendered, frames_dir,
                   encoded, success>>

\* lines 96-101: parse_gpx(gpx_file), ET.parse raising on a file that is not
\* well-formed; then total_frames and os.makedirs(frames_dir, exist_ok=True)
ParseGpx ==
    /\ pc = "parse"
    /\ \E file \in GpxFiles :
        /\ gpx' = file
        /\ IF file.well_formed
           THEN /\ points' = parse_gpx(file.trkpts)
                /\ total_frames' = TotalFrames(duration, OUTPUT_FPS)
                /\ frames_dir' = [frames_dir EXCEPT !.exists = TRUE]
                /\ pc' = "render"
                /\ UNCHANGED error
           ELSE /\ Abort("parse_gpx")
                /\ UNCHANGED <<points, total_frames, frames_dir>>
    /\ UNCHANGED <<target_time, miles, queried, run, tags, OUTPUT_FPS,
                   now, duration, start_utc, rendered, encoded, success>>

\* the convert call goes on to the next frame whatever its exit status
RenderFrameUnchecked ==
    /\ pc = "render"
    /\ Len(rendered) < total_frames
    /\ LET frame       == Len(rendered)
           current_utc == start_utc + timedelta(frame, OUTPUT_FPS)
           m           == cumulative_miles(points, current_utc)
       IN  /\ target_time' = current_utc
           /\ miles' = m
           /\ queried' = TRUE
           /\ \E convert_ok \in BOOLEAN :
               /\ rendered' = Append(rendered,
                     [frame |-> frame, current_utc |-> current_utc,
                      local |-> astimezone_Chicago(current_utc),
                      miles |-> m, written |-> convert_ok])
               /\ frames_dir' = IF convert_ok
                     THEN [frames_dir EXCEPT !.files =
                             {f \in @ : f.index # frame}
                             \cup {[index |-> frame, fresh |-> TRUE]}]
                     ELSE frames_dir
           /\ pc' = IF frame + 1 = total_frames THEN "encode" ELSE "render"
           /\ UNCHANGED error
    /\ UNCHANGED <<points, run, tags, gpx, OUTPUT_FPS, now, duration,
                   start_utc, total_frames, encoded, success>>

\* one pass of the loop of lines 103-133: frame = len(rendered) is stamped,
\* its distance computed, its date and time lines read off the clocks of
\* America/Chicago, and convert run with check=True, writing
\* frames/<frame>.png; after the last frame the encoder is next
RenderFrame ==
    /\ pc = "render"
    /\ Len(rendered) < total_frames
    /\ LET frame       == Len(rendered)
           current_utc == start_utc + timedelta(frame, OUTPUT_FPS)
           m           == cumulative_miles(points, current_utc)
       IN  /\ target_time' = current_utc
           /\ miles' = m
           /\ queried' = TRUE
           /\ \E convert_ok \in BOOLEAN :
               IF convert_ok
               THEN /\ rendered' = Append(rendered,
                          [frame |-> frame, current_utc |-> current_utc,
                           local |-> astimezone_Chicago(current_utc),
                           miles |-> m, written |-> TRUE])
                    /\ frames_dir' = [frames_dir EXCEPT !.files =
                          {f \in @ : f.index # frame}
                          \cup {[index |-> frame, fresh |-> TRUE]}]
                    /\ pc' = IF frame + 1 = total_frames
                             THEN "encode" ELSE "render"
                    /\ UNCHANGED error
               ELSE /\ Abort("convert")
                    /\ UNCHANGED <<rendered, frames_dir>>
    /\ UNCHANGED <<points, run, tags, gpx, OUTPUT_FPS, now, duration,
                   start_utc, total_frames, encoded, success>>

\* lines 134-140: ffmpeg is handed the image sequence frames/%08d.png, with
\* check=True
Encode ==
    /\ pc = "encode"
    /\ encoded' = ImageSequence(frames_dir.files)
    /\ \E ffmpeg_ok \in BOOLEAN :
        IF ffmpeg_ok
        THEN /\ pc' = "cleanup"
             /\ UNCHANGED error
        ELSE Abort("ffmpeg")
    /\ UNCHANGED <<points, target_time, miles, queried, run, tags, gpx,
                   OUTPUT_FPS, now, duration, start_utc, total_frames,
                   rendered, frames_dir, success>>

\* lines 142-152: the frames folder is removed when CLEANUP_FRAMES, and
\* SUCCESS is printed
Cleanup ==
    /\ pc = "cleanup"
    /\ frames_dir' = IF CLEANUP_FRAMES
                     THEN [exists |-> FALSE, files |-> {}]
                     ELSE frames_dir
    /\ success' = TRUE
    /\ pc' = "done"
    /\ UNCHANGED <<points, target_time, miles, queried, run, error, tags,
                   gpx, OUTPUT_FPS, now, duration, start_utc, total_frames,
                   rendered, encoded>>

Next ==
    \/ StartRun
    \/ ProbeDuration
    \/ GetVideoStartUtc
    \/ ParseGpx
    \/ RenderFrame
    \/ Encode
    \/ Cleanup

Spec == Init /\ [][Next]_vars

(* ------------------- claims on the distance accumulator ---------------- *)

\* indices of the samples with timestamp <= t
AdmittedAt(pts, t) == {i \in DOMAIN pts : pts[i][1] <= t}

\* whether the source order of the track is ascending by timestamp
IsTimeOrdered(pts) ==
    \A i, j \in DOMAIN pts : i < j => pts[i][1] <= pts[j][1]

\* insertion of a sample into a time-ordered sequence, after its equals
RECURSIVE InsertByTime(_, _)
InsertByTime(s, p) ==
    IF s = <<>> THEN <<p>>
    ELSE IF s[Len(s)][1] <= p[1] THEN Append(s, p)
    ELSE Append(InsertByTime(SubSeq(s, 1, Len(s) - 1), p), s[Len(s)])

\* the samples in ascending timestamp order, equal timestamps in source order
RECURSIVE SortByTime(_)
SortByTime(s) ==
    IF s = <<>> THEN <<>>
    ELSE InsertByTime(SortByTime(SubSeq(s, 1, Len(s) - 1)), s[Len(s)])

\* sum of the segments between consecutive samples of a sequence
RECURSIVE PathLength(_)
PathLength(s) ==
    IF Len(s) < 2 THEN 0
    ELSE PathLength(SubSeq(s, 1, Len(s) - 1))
         + haversine(s[Len(s)-1][2], s[Len(s)-1][3], s[Len(s)][2], s[Len(s)][3])

\* C1: cumulative_miles is monotonically non-decreasing in the query
\* instant: the result of a call at target_time is at least the result at
\* every earlier instant and at most the result at every later instant, for
\* every track, whatever its source order and duplicates.
C1_Monotone ==
    queried =>
        \A t \in Times :
            /\ t < target_time => cumulative_miles(points, t) <= miles
            /\ t > target_time => miles <= cumulative_miles(points, t)

\* C1's case: a track out of time order, queried where the distance has
\* strictly grown since an earlier instant and grows again later.
C1_Witness ==
    /\ queried
    /\ ~IsTimeOrdered(points)
    /\ \E t \in Times : t < target_time /\ cumulative_miles(points, t) < miles
    /\ \E t \in Times : t > target_time /\ miles < cumulative_miles(points, t)

\* C2: with at least 2 samples admitted, the result is the sum of the
\* segments between consecutive admitted samples taken in ascending
\* timestamp order, also when the source order is not ascending.
C2_SumInTimeOrder ==
    (queried /\ Cardinality(AdmittedAt(points, target_time)) >= 2) =>
        miles = PathLength(SortByTime(Past(points, target_time)))

C4_ZeroBelowTwo ==
    (queried /\ Cardinality(AdmittedAt(points, target_time)) < 2) => miles = 0

\* C4's case: a track with a positive total distance queried at an instant
\* that admits exactly one of its samples.
C4_Witness ==
    /\ queried
    /\ Len(points) >= 2
    /\ Cardinality(AdmittedAt(points, target_time)) = 1
    /\ PathLength(points) > 0
    /\ miles = 0

(* ------------------------- claims on the pipeline ---------------------- *)

\* the largest whole L with L/fps <= n/d: floor(duration * fps), by its
\* defining inequalities
FloorFrames(d, fps) ==
    CHOOSE L \in 0..(d[1] * fps) :
        L * d[2] <= d[1] * fps /\ d[1] * fps < (L + 1) * d[2]

\* the smallest whole L with n/d <= L/fps: ceil(duration * fps)
CeilFrames(d, fps) ==
    CHOOSE L \in 0..(d[1] * fps) :
        d[1] * fps <= L * d[2] /\ (L = 0 \/ (L - 1) * d[2] < d[1] * fps)

\* the frame loop has run to its end
LoopDone == pc \in {"encode", "cleanup", "done"} \/ error = "ffmpeg"

\* the passes of the loop that produced frame index i
PassesFor(i) == {k \in DOMAIN rendered : rendered[k].frame = i}

\* C5 as stated: the loop produces exactly one frame for each index from 0
\* to ceil(duration * fps) inclusive.
C5_OneFramePerIndexToCeil ==
    LoopDone =>
        \A i \in 0..CeilFrames(duration, OUTPUT_FPS) :
            Cardinality(PassesFor(i)) = 1

\* C5 as amended: the loop produces exactly one frame for each index from 0
\* to floor(duration * fps) inclusive and none beyond, so the last frame is
\* stamped at or before the end of the duration and a fractional remainder
\* gets no frame of its own.
C5_OneFramePerIndexToFloor ==
    LoopDone =>
        /\ \A i \in 0..FloorFrames(duration, OUTPUT_FPS) :
               Cardinality(PassesFor(i)) = 1
        /\ \A k \in DOMAIN rendered :
               rendered[k].frame * duration[2] <= duration[1] * OUTPUT_FPS

\* C5's case: a finished run over 1.5 s at 1 frame per second, whose last
\* frame is index 1.
C5_Witness ==
    /\ pc = "done"
    /\ duration = <<3, 2>>
    /\ OUTPUT_FPS = 1
    /\ rendered[Len(rendered)].frame = 1

\* C6: the number of frames produced is floor(duration * fps) + 1, the
\* indices 0..floor(duration * fps) each once in ascending order; 10.4 s at
\* 1 frame per second gives 11 frames.
C6_FrameCount ==
    LoopDone =>
        /\ Len(rendered) = FloorFrames(duration, OUTPUT_FPS) + 1
        /\ \A k \in DOMAIN rendered : rendered[k].frame = k - 1
        /\ (duration = <<52, 5>> /\ OUTPUT_FPS = 1) => Len(rendered) = 11

\* C6's case: the loop has ended for 10.4 s at 1 frame per second with 11
\* frames, the last one index 10.
C6_Witness ==
    /\ LoopDone
    /\ duration = <<52, 5>>
    /\ OUTPUT_FPS = 1
    /\ Len(rendered) = 11
    /\ rendered[11].frame = 10

\* get_video_start_utc has returned in this run
OriginResolved == now # <<>>

\* C7: with a creation-time tag, the origin less the manual offset is the
\* UTC instant at which the clocks of America/Chicago read the tag's
\* components (a trailing Z ignored); the tag 2025-06-01T12:00:00 gives the
\* UTC instant of 2025-06-01T13:00:00-05:00; frame 0 is stamped with the
\* origin.
C7_OriginFromTag ==
    (OriginResolved /\ tags.creation_time # <<>>) =>
        LET tag == tags.creation_time[1]
        IN  /\ astimezone_Chicago(start_utc - timedelta(MANUAL_OFFSET_SECONDS, 1))
                   = ClockTicks(tag)
            /\ (tag.month = 6 /\ tag.day = 1 /\ tag.hour = 12) =>
                   start_utc = ClockTicks(IsoText(6, 1, 13, 0, 0, ""))
                               + timedelta(5 * 3600, 1)
            /\ rendered # <<>> =>
                   /\ rendered[1].frame = 0
                   /\ rendered[1].current_utc = start_utc

\* C7's case: the tag 2025-06-01T12:00:00Z was read and frame 0 rendered at
\* 2025-06-01T18:00:00 UTC.
C7_Witness ==
    /\ OriginResolved
    /\ tags.creation_time = <<IsoText(6, 1, 12, 0, 0, "Z")>>
    /\ rendered # <<>>
    /\ rendered[1].current_utc = ClockTicks(IsoText(6, 1, 18, 0, 0, ""))

\* the second probe of this run answered
TagsProbed ==
    /\ pc \notin {"idle", "probe_duration", "get_start"}
    /\ error # "ffprobe"

\* C8: when the probe answered and there is no creation-time tag (the tag
\* alone missing, or no tags at all), the run is not aborted there and the
\* origin is the current instant plus the manual offset.
C8_FallbackToNow ==
    (TagsProbed /\ tags.creation_time = <<>>) =>
        /\ error # "KeyError"
        /\ now # <<>>
        /\ start_utc = now[1] + timedelta(MANUAL_OFFSET_SECONDS, 1)

\* C9, in every state: an exception and the aborted run go together; the
\* frames rendered are 0, 1, 2, ... in this order, each written; the encoder
\* is reached only with every index 0..total_frames-1 rendered; SUCCESS is
\* reported only in a run that ended without an exception after the encoder
\* ran.
C9_State ==
    /\ (error # "none") <=> (pc = "aborted")
    /\ \A k \in DOMAIN rendered :
           rendered[k].frame = k - 1 /\ rendered[k].written
    /\ LoopDone => Len(rendered) = total_frames
    /\ encoded # <<>> => LoopDone
    /\ success => (pc = "done" /\ error = "none" /\ encoded # <<>>)

\* C9, in every step: the step that raises leaves frames, folder and
\* SUCCESS as they were; an aborted run takes no further step (only a new
\* run follows); each step renders at most the next frame; the folder is
\* removed and SUCCESS reported only by the step after the encoder's
\* success.
C9_Step ==
    /\ (error = "none" /\ error' # "none") =>
           /\ pc' = "aborted"
           /\ UNCHANGED <<rendered, frames_dir, success>>
    /\ (pc = "aborted" /\ run' = run) => UNCHANGED vars
    /\ (run' = run /\ rendered' # rendered) =>
           /\ pc = "render"
           /\ Len(rendered') = Len(rendered) + 1
    /\ (frames_dir.exists /\ ~frames_dir'.exists) => pc = "cleanup"
    /\ (~success /\ success') => pc = "cleanup"
    /\ pc' = "cleanup" => pc = "encode"

\* C9: a failure of the probe, of GPX parsing, of a frame's render call or of
\* the encode call aborts the run at that step with no retry and no later
\* step; frames are rendered one at a time in ascending order; the encoder
\* starts only after every frame was rendered; cleanup and SUCCESS come only
\* after the encoder's success.
C9_AbortAtFailingStep == [](C9_State) /\ [][C9_Step]_vars

\* C9's case: a run aborted by a frame's render call after two frames, with
\* the encoder never started.
C9_Witness ==
    /\ pc = "aborted"
    /\ error = "convert"
    /\ Len(rendered) = 2
    /\ total_frames > 3
    /\ encoded = <<>>
    /\ ~success

\* C10: the image sequence handed to the encoder is exactly the frames this
\* run rendered, indices 0..total_frames-1, and holds no file left in the
\* frames folder by an earlier run.
C10_EncodesOnlyOwnFrames ==
    LoopDone /\ encoded # <<>> =>
        /\ Len(encoded) = total_frames
        /\ \A k \in DOMAIN encoded :
               encoded[k].index = k - 1 /\ encoded[k].fresh

====
